---- MODULE Spec2Model ----
(***************************************************************************)
(* zulip-messages-rs (src/src/main.rs): one spawned watcher task per       *)
(* configured site registers an event queue, long-polls it, dispatches     *)
(* the returned events, and main joins the tasks with try_join_all.        *)
(*                                                                         *)
(* The server and the notification daemon are the environment: every       *)
(* response is drawn from a bounded set of wire-level responses.           *)
(***************************************************************************)
EXTENDS Integers, Sequences, FiniteSets, TLC

VARIABLES
    sites,          \* config.sites (main.rs:55), fixed after start-up
    pc,             \* per site: where the spawned task stands
    queue,          \* per site: the EventQueue {site, queue_id, last_event_id}
    events,         \* per site: what is left of `for event in events`
    error,          \* per site: the Err(..) the task returned, if any
    res,            \* the result of try_join_all, once main has printed it
    poll_req,       \* per site: the last events?queue_id=..&last_event_id=.. sent
    before,         \* per site: the EventQueue when the current long_poll began
    poll_resp,      \* per site: the response to the poll of this iteration
    reg_resp,       \* per site: the last response to a register request
    regs,           \* per site: register requests sent by the current long_poll
    returned,       \* per site: how the last long_poll call ended
    batch,          \* per site: the Vec<Event> long_poll returned to this iteration
    dispatched,     \* per site: the events of that batch handled so far
    console,        \* per site: lines printed while handling that batch
    notifications,  \* per site: Notification::show() calls for that batch
    last_dispatched \* per site: id of the last event handled since the last
                    \* registration (0: none yet)

vars == <<sites, pc, queue, events, error, res, poll_req, before, poll_resp,
          reg_resp, regs, returned, batch, dispatched, console, notifications,
          last_dispatched>>

---------------------------------------------------------------------------
\* Bounds of the environment.

\* Largest event id / cursor the server hands out.
MaxEventId == 2
\* Longest event list in one poll response.
MaxBatch == 2
\* Longest flag list of a message event.
MaxFlags == 2

AllSites == {"a", "b"}
QueueIds == {"Q1", "Q2"}
EventIds == 1..MaxEventId
Cursors == 0..MaxEventId

BAD_EVENT_QUEUE_ID == "BAD_EVENT_QUEUE_ID"
NoCode == "<absent>"
ErrorCodes == {BAD_EVENT_QUEUE_ID, "UNAUTHORIZED", NoCode}

\* "flags" strings on the wire; "starred" is one MessageFlag does not know.
WireFlags == {"read", "mentioned", "has_alert_word", "starred"}

RECURSIVE SeqsUpTo(_, _)
SeqsUpTo(S, n) ==
    IF n = 0 THEN {<<>>}
    ELSE LET shorter == SeqsUpTo(S, n - 1)
         IN shorter \cup {Append(q, x) : q \in {r \in shorter : Len(r) = n - 1}, x \in S}

WireEvent(id, type, flags) == [id |-> id, type |-> type, flags |-> flags]

\* Event lists of up to MaxBatch events; "reaction" is a "type" EventType does
\* not know; messages carry one flag.
BatchEvents ==
    {WireEvent(id, "heartbeat", <<>>) : id \in EventIds}
    \cup {WireEvent(id, "reaction", <<>>) : id \in EventIds}
    \cup {WireEvent(id, "message", <<f>>) : id \in EventIds, f \in {"read", "mentioned"}}
BatchBodies == SeqsUpTo(BatchEvents, MaxBatch)

\* One message event with any flag list of up to MaxFlags flags.
MessageBodies ==
    {<<WireEvent(id, "message", fl)>> : id \in EventIds, fl \in SeqsUpTo(WireFlags, MaxFlags)}

\* Event lists used when several sites run side by side.
SiteEvents ==
    {WireEvent(id, "heartbeat", <<>>) : id \in EventIds}
    \cup {WireEvent(id, "message", <<"mentioned">>) : id \in EventIds}
SiteBodies == {<<>>} \cup {<<e>> : e \in SiteEvents}

PollResponse(result, code, evs) == [result |-> result, code |-> code, events |-> evs]
NoPollResponse == PollResponse("none", NoCode, <<>>)
PollFailures ==
    {PollResponse("transport_failure", NoCode, <<>>)}
    \cup {PollResponse("error", c, <<>>) : c \in ErrorCodes}
PollSuccesses(bodies) == {PollResponse("success", NoCode, b) : b \in bodies}
\* Every answer to a poll of a single watched site.
PollResponses == PollFailures \cup PollSuccesses(BatchBodies \cup MessageBodies)
\* Every answer to a poll when several sites run side by side.
SitePollResponses == PollFailures \cup PollSuccesses(SiteBodies)

RegisterResponse(result, code, qid, last) ==
    [result |-> result, code |-> code, queue_id |-> qid, last_event_id |-> last]
NoRegisterResponse == RegisterResponse("none", NoCode, "none", 0)
RegisterFailures ==
    {RegisterResponse("transport_failure", NoCode, "none", 0)}
    \cup {RegisterResponse("error", c, "none", 0) : c \in ErrorCodes}
\* Every answer to a registration of a single watched site.
RegisterResponses ==
    RegisterFailures
    \cup {RegisterResponse("success", NoCode, q, l) : q \in QueueIds, l \in Cursors}
\* Every answer to a registration when several sites run side by side.
SiteRegisterResponses ==
    RegisterFailures
    \cup {RegisterResponse("success", NoCode, q, 0) : q \in QueueIds}

---------------------------------------------------------------------------
\* Decoding (the serde derives).

\* MessageFlag, rename_all = "snake_case": three known names, no catch-all.
KnownFlags == {"read", "mentioned", "has_alert_word"}
decode_flag(f) ==
    CASE f = "read" -> "Read"
      [] f = "mentioned" -> "Mentioned"
      [] f = "has_alert_word" -> "HasAlertWord"

\* Mutant: an EventType whose unknown tags fall on the unit variant Heartbeat.
decode_tag_other_as_heartbeat(type) ==
    CASE type = "message" -> "Message"
      [] OTHER -> "Heartbeat"

\* EventType, tag = "type": heartbeat, message, and #[serde(other)] Other.
decode_tag(type) ==
    CASE type = "heartbeat" -> "Heartbeat"
      [] type = "message" -> "Message"
      [] OTHER -> "Other"

Event(id, tag, flags) == [id |-> id, tag |-> tag, flags |-> flags]

\* An event decodes unless it is a message with a flag MessageFlag lacks.
event_decodes(e) ==
    e.type = "message" => \A i \in 1..Len(e.flags) : e.flags[i] \in KnownFlags

decode_event(e) ==
    Event(e.id, decode_tag(e.type),
          IF e.type = "message"
          THEN [i \in 1..Len(e.flags) |-> decode_flag(e.flags[i])]
          ELSE <<>>)

decode_events(evs) == [i \in 1..Len(evs) |-> decode_event(evs[i])]

\* .send().await?.json::<ApiResult<..>>().await? yields a value.
json_ok(resp) ==
    /\ resp.result \in {"success", "error"}
    /\ resp.result = "success" => \A i \in 1..Len(resp.events) : event_decodes(resp.events[i])

register_json_ok(resp) == resp.result \in {"success", "error"}

\* Mutant: into_result that takes the Error variant for a value too.
into_result_ok_always(resp) == TRUE

\* ApiResult::into_result is Ok.
into_result_ok(resp) == resp.result = "success"

\* Mutant: a recovery arm that matches every structured error.
is_bad_event_queue_id_any_error(resp) == resp.result = "error"

\* The guard of the recovery arm of long_poll.
is_bad_event_queue_id(resp) ==
    resp.result = "error" /\ resp.code = BAD_EVENT_QUEUE_ID

---------------------------------------------------------------------------
\* EventQueue.

EventQueue(site, qid, last) == [site |-> site, queue_id |-> qid, last_event_id |-> last]
NoQueue(s) == EventQueue(s, "none", 0)

\* Mutant: a registration that never lets the cursor go back.
register_new_keep_cursor(s, resp) ==
    [site |-> s, queue_id |-> resp.queue_id,
     last_event_id |-> IF queue[s].last_event_id > resp.last_event_id
                       THEN queue[s].last_event_id ELSE resp.last_event_id]

\* Ok(EventQueue { site, queue_id, last_event_id }) of register_new.
register_new(s, resp) == EventQueue(s, resp.queue_id, resp.last_event_id)

\* Mutant: one EventQueue shared by every task.
set_queue_shared(s, q) ==
    [t \in sites |-> [site |-> t, queue_id |-> q.queue_id, last_event_id |-> q.last_event_id]]

\* `let mut queue` is a local of the task of site s: an assignment to it
\* (or through &mut self) changes that task's queue only.
set_queue(s, q) == [queue EXCEPT ![s] = q]

\* The query of the poll request.
PollRequest(qid, last) == [queue_id |-> qid, last_event_id |-> last]
NoPollRequest == PollRequest("none", 0)

\* Mutant: the request carries the cursor of the previous poll.
poll_request_stale_cursor(q) == PollRequest(q.queue_id, before[q.site].last_event_id)

poll_request(q) == PollRequest(q.queue_id, q.last_event_id)

\* Mutant: a cursor taken from the first event of the batch.
new_last_event_id_first(evs) == evs[1].id

\* Mutant: a cursor taken from the largest id of the batch.
new_last_event_id_max(evs) ==
    CHOOSE m \in {evs[i].id : i \in 1..Len(evs)} : \A i \in 1..Len(evs) : evs[i].id <= m

\* poll_resp.events.last().expect(..).id
new_last_event_id(evs) == evs[Len(evs)].id

---------------------------------------------------------------------------
\* Dispatch.

\* Vec::contains: a linear scan.
RECURSIVE contains(_, _)
contains(flags, f) ==
    IF flags = <<>> THEN FALSE
    ELSE Head(flags) = f \/ contains(Tail(flags), f)

\* Mutant: a verdict that forgets alert words.
is_important_mentioned_only(flags) == contains(flags, "Mentioned")

is_important(flags) ==
    contains(flags, "Mentioned") \/ contains(flags, "HasAlertWord")

\* Mutant: a loop that walks the batch from its end.
next_event_from_end(evs) == evs[Len(evs)]

\* The event the for loop takes next.
next_event(evs) == Head(evs)

\* Mutant: a poll that does not wait for the for loop.
may_poll_anytime(s) == TRUE

\* The for loop is over: the next iteration of `loop` calls long_poll.
may_poll(s) == events[s] = <<>>

Line(text, mark, id, flags) == [text |-> text, mark |-> mark, id |-> id, flags |-> flags]

\* What handling one event prints.
console_lines(event) ==
    CASE event.tag = "Heartbeat" -> <<>>
      [] event.tag = "Message" ->
            <<Line("message", is_important(event.flags), event.id, event.flags)>>
      [] OTHER -> <<Line("unknown event", FALSE, event.id, <<>>)>>

\* Mutant: a notification for every message.
notifies_every_message(event) == event.tag = "Message"

\* Whether handling one event calls Notification::show().
notifies(event) == event.tag = "Message" /\ is_important(event.flags)

---------------------------------------------------------------------------
\* The tasks.

Running == res.kind = "pending"

Ended == {"returned_err", "panicked", "cancelled"}

Fail(s, kind) ==
    /\ pc' = [pc EXCEPT ![s] = "returned_err"]
    /\ error' = [error EXCEPT ![s] = kind]
    /\ events' = [events EXCEPT ![s] = <<>>]

\* The task starts: Client::builder().build()?, then the register request.
Spawn(s, built) ==
    /\ pc[s] = "spawned"
    /\ IF built
       THEN /\ pc' = [pc EXCEPT ![s] = "awaiting_register"]
            /\ UNCHANGED <<error, events>>
       ELSE Fail(s, "client_build")
    /\ UNCHANGED <<sites, queue, res, poll_req, before, poll_resp, reg_resp, regs,
                   returned, batch, dispatched, console, notifications,
                   last_dispatched>>

\* EventQueue::register_new(..).await? in main.
RegisteredWith(s, resp) ==
    /\ reg_resp' = [reg_resp EXCEPT ![s] = resp]
    /\ CASE ~register_json_ok(resp) ->
              /\ Fail(s, "transport")
              /\ UNCHANGED queue
         [] register_json_ok(resp) /\ ~into_result_ok(resp) ->
              /\ Fail(s, "api")
              /\ UNCHANGED queue
         [] OTHER ->
              /\ queue' = set_queue(s, register_new(s, resp))
              /\ pc' = [pc EXCEPT ![s] = "loop"]
              /\ UNCHANGED <<error, events>>
    /\ UNCHANGED <<sites, res, poll_req, before, poll_resp, regs, returned, batch,
                   dispatched, console, notifications,
                   last_dispatched>>

Registered(s, responses) ==
    /\ pc[s] = "awaiting_register"
    /\ \E resp \in responses : RegisteredWith(s, resp)

\* The next iteration of `loop`: the batch of the last one is dropped and
\* long_poll sends its request.
IssuePoll(s) ==
    /\ pc[s] = "loop"
    /\ may_poll(s)
    /\ poll_req' = [poll_req EXCEPT ![s] = poll_request(queue[s])]
    /\ before' = [before EXCEPT ![s] = queue[s]]
    /\ pc' = [pc EXCEPT ![s] = "awaiting_poll"]
    /\ poll_resp' = [poll_resp EXCEPT ![s] = NoPollResponse]
    /\ batch' = [batch EXCEPT ![s] = <<>>]
    /\ dispatched' = [dispatched EXCEPT ![s] = <<>>]
    /\ console' = [console EXCEPT ![s] = <<>>]
    /\ notifications' = [notifications EXCEPT ![s] = <<>>]
    /\ UNCHANGED <<sites, queue, events, error, res, reg_resp, regs, returned,
                   last_dispatched>>

\* long_poll gets the answer to its request.
PolledWith(s, resp) ==
    /\ poll_resp' = [poll_resp EXCEPT ![s] = resp]
    /\ CASE ~json_ok(resp) ->
              /\ Fail(s, "transport")
              /\ returned' = [returned EXCEPT ![s] = "err"]
              /\ regs' = [regs EXCEPT ![s] = 0]
              /\ batch' = [batch EXCEPT ![s] = <<>>]
              /\ UNCHANGED <<queue, reg_resp>>
         [] json_ok(resp) /\ is_bad_event_queue_id(resp) ->
              /\ pc' = [pc EXCEPT ![s] = "awaiting_reregister"]
              /\ regs' = [regs EXCEPT ![s] = 1]
              /\ reg_resp' = [reg_resp EXCEPT ![s] = NoRegisterResponse]
              /\ returned' = [returned EXCEPT ![s] = "none"]
              /\ batch' = [batch EXCEPT ![s] = <<>>]
              /\ UNCHANGED <<queue, error, events>>
         [] json_ok(resp) /\ ~is_bad_event_queue_id(resp) /\ ~into_result_ok(resp) ->
              /\ Fail(s, "api")
              /\ returned' = [returned EXCEPT ![s] = "err"]
              /\ regs' = [regs EXCEPT ![s] = 0]
              /\ batch' = [batch EXCEPT ![s] = <<>>]
              /\ UNCHANGED <<queue, reg_resp>>
         [] json_ok(resp) /\ ~is_bad_event_queue_id(resp) /\ into_result_ok(resp)
               /\ resp.events = <<>> ->
              /\ pc' = [pc EXCEPT ![s] = "panicked"]
              /\ returned' = [returned EXCEPT ![s] = "panic"]
              /\ regs' = [regs EXCEPT ![s] = 0]
              /\ batch' = [batch EXCEPT ![s] = <<>>]
              /\ UNCHANGED <<queue, error, events, reg_resp>>
         [] OTHER ->
              /\ queue' = set_queue(s, [queue[s] EXCEPT !.last_event_id =
                                  new_last_event_id(decode_events(resp.events))])
              /\ events' = [events EXCEPT ![s] = decode_events(resp.events)]
              /\ batch' = [batch EXCEPT ![s] = decode_events(resp.events)]
              /\ returned' = [returned EXCEPT ![s] = "events"]
              /\ regs' = [regs EXCEPT ![s] = 0]
              /\ pc' = [pc EXCEPT ![s] = "loop"]
              /\ UNCHANGED <<error, reg_resp>>
    /\ UNCHANGED <<sites, res, poll_req, before, dispatched, console, notifications,
                   last_dispatched>>

Polled(s, responses) ==
    /\ pc[s] = "awaiting_poll"
    /\ \E resp \in responses : PolledWith(s, resp)

\* Mutant: a recovery arm that overwrites *self with whatever the
\* registration answered before looking at its outcome.
ReregisteredWith_assign_first(s, resp) ==
    /\ reg_resp' = [reg_resp EXCEPT ![s] = resp]
    /\ queue' = set_queue(s, register_new(queue[s].site, resp))
    /\ IF register_json_ok(resp) /\ into_result_ok(resp)
       THEN /\ returned' = [returned EXCEPT ![s] = "reconnected"]
            /\ pc' = [pc EXCEPT ![s] = "loop"]
            /\ last_dispatched' = [last_dispatched EXCEPT ![s] = 0]
            /\ UNCHANGED <<error, events>>
       ELSE /\ Fail(s, IF register_json_ok(resp) THEN "api" ELSE "transport")
            /\ returned' = [returned EXCEPT ![s] = "err"]
            /\ UNCHANGED last_dispatched
    /\ UNCHANGED <<sites, res, poll_req, before, poll_resp, regs, batch, dispatched,
                   console, notifications>>

\* *self = Self::register_new(client, self.site.clone()).await?; return Ok(vec![])
ReregisteredWith(s, resp) ==
    /\ reg_resp' = [reg_resp EXCEPT ![s] = resp]
    /\ CASE ~register_json_ok(resp) ->
              /\ Fail(s, "transport")
              /\ returned' = [returned EXCEPT ![s] = "err"]
              /\ UNCHANGED <<queue, last_dispatched>>
         [] register_json_ok(resp) /\ ~into_result_ok(resp) ->
              /\ Fail(s, "api")
              /\ returned' = [returned EXCEPT ![s] = "err"]
              /\ UNCHANGED <<queue, last_dispatched>>
         [] OTHER ->
              /\ queue' = set_queue(s, register_new(queue[s].site, resp))
              /\ returned' = [returned EXCEPT ![s] = "reconnected"]
              /\ pc' = [pc EXCEPT ![s] = "loop"]
              /\ last_dispatched' = [last_dispatched EXCEPT ![s] = 0]
              /\ UNCHANGED <<error, events>>
    /\ UNCHANGED <<sites, res, poll_req, before, poll_resp, regs, batch, dispatched,
                   console, notifications>>

Reregistered(s, responses) ==
    /\ pc[s] = "awaiting_reregister"
    /\ \E resp \in responses : ReregisteredWith(s, resp)

\* One iteration of `for event in events`; `shown` is whether show() succeeds.
Dispatch(s, shown) ==
    /\ pc[s] = "loop"
    /\ events[s] # <<>>
    /\ LET event == next_event(events[s])
       IN /\ dispatched' = [dispatched EXCEPT ![s] = Append(@, event)]
          /\ console' = [console EXCEPT ![s] = @ \o console_lines(event)]
          /\ notifications' =
                IF notifies(event)
                THEN [notifications EXCEPT ![s] = Append(@, event.id)]
                ELSE notifications
          /\ last_dispatched' = [last_dispatched EXCEPT ![s] = event.id]
          /\ IF notifies(event) /\ ~shown
             THEN Fail(s, "notification")
             ELSE /\ events' = [events EXCEPT ![s] = Tail(@)]
                  /\ UNCHANGED <<pc, error>>
    /\ UNCHANGED <<sites, queue, res, poll_req, before, poll_resp, reg_resp, regs,
                   returned, batch>>

---------------------------------------------------------------------------
\* main.

\* Mutant: a join that resolves as soon as one task has ended.
try_join_all_ready_on_first_end ==
    \E s \in sites : pc[s] \in {"returned_err", "panicked"}

\* try_join_all over the JoinHandles resolves: on the first JoinError (a
\* task that panicked), or when every task has returned.
try_join_all_ready ==
    \/ \E s \in sites : pc[s] = "panicked"
    \/ \A s \in sites : pc[s] = "returned_err"

try_join_all_result ==
    IF \E s \in sites : pc[s] = "panicked"
    THEN [kind |-> "Err(JoinError)", outcomes |-> [s \in sites |-> "none"]]
    ELSE [kind |-> "Ok", outcomes |-> [s \in sites |-> error[s]]]

\* println!("{:?}", res); Ok(()): main returns and the runtime shuts down.
MainFinish ==
    /\ Running
    /\ try_join_all_ready
    /\ res' = try_join_all_result
    /\ UNCHANGED <<sites, pc, queue, events, error, poll_req, before, poll_resp,
                   reg_resp, regs, returned, batch, dispatched, console, notifications,
                   last_dispatched>>

\* Once main has returned, the runtime shuts down: a task that is still
\* alive keeps running on its worker thread until it is dropped, which can
\* only happen where it is suspended at an .await (not yet started, waiting
\* for an answer, or sending its next request), never inside the for loop.
Cancel(s) ==
    /\ ~Running
    /\ pc[s] \notin Ended
    /\ pc[s] = "loop" => events[s] = <<>>
    /\ pc' = [pc EXCEPT ![s] = "cancelled"]
    /\ UNCHANGED <<sites, queue, events, error, res, poll_req, before, poll_resp, reg_resp,
                   regs, returned, batch, dispatched, console, notifications,
                   last_dispatched>>

---------------------------------------------------------------------------
\* Specifications.

InitOf(configured) ==
    /\ sites = configured
    /\ pc = [s \in configured |-> "spawned"]
    /\ queue = [s \in configured |-> NoQueue(s)]
    /\ events = [s \in configured |-> <<>>]
    /\ error = [s \in configured |-> "none"]
    /\ res = [kind |-> "pending", outcomes |-> [s \in configured |-> "none"]]
    /\ poll_req = [s \in configured |-> NoPollRequest]
    /\ before = [s \in configured |-> NoQueue(s)]
    /\ poll_resp = [s \in configured |-> NoPollResponse]
    /\ reg_resp = [s \in configured |-> NoRegisterResponse]
    /\ regs = [s \in configured |-> 0]
    /\ returned = [s \in configured |-> "none"]
    /\ batch = [s \in configured |-> <<>>]
    /\ dispatched = [s \in configured |-> <<>>]
    /\ console = [s \in configured |-> <<>>]
    /\ notifications = [s \in configured |-> <<>>]
    /\ last_dispatched = [s \in configured |-> 0]

\* One configured site, the full response space.
Init == InitOf({"a"})

Next ==
    \/ \E s \in sites, built \in BOOLEAN : Spawn(s, built)
    \/ \E s \in sites : Registered(s, RegisterResponses)
    \/ \E s \in sites : IssuePoll(s)
    \/ \E s \in sites : Polled(s, PollResponses)
    \/ \E s \in sites : Reregistered(s, RegisterResponses)
    \/ \E s \in sites, shown \in BOOLEAN : Dispatch(s, shown)
    \/ MainFinish

Spec == Init /\ [][Next]_vars

\* A server that keeps the event-queue contract: a poll is answered only with
\* events newer than the last_event_id it carried, oldest first.
IsAscendingAfter(wire, last) ==
    \A i \in 1..Len(wire) :
        wire[i].id > (IF i = 1 THEN last ELSE wire[i - 1].id)

OrderedPollResponses(s) ==
    {resp \in PollResponses :
        resp.result = "success" => IsAscendingAfter(resp.events, poll_req[s].last_event_id)}

NextOrdered ==
    \/ \E s \in sites, built \in BOOLEAN : Spawn(s, built)
    \/ \E s \in sites : Registered(s, RegisterResponses)
    \/ \E s \in sites : IssuePoll(s)
    \/ \E s \in sites : Polled(s, OrderedPollResponses(s))
    \/ \E s \in sites : Reregistered(s, RegisterResponses)
    \/ \E s \in sites, shown \in BOOLEAN : Dispatch(s, shown)
    \/ MainFinish

SpecOrdered == Init /\ [][NextOrdered]_vars

\* Any configuration of up to two sites, one event per poll.
InitSites == \E configured \in SUBSET AllSites : InitOf(configured)

NextSites ==
    \/ \E s \in sites, built \in BOOLEAN : Spawn(s, built)
    \/ \E s \in sites : Registered(s, SiteRegisterResponses)
    \/ \E s \in sites : IssuePoll(s)
    \/ \E s \in sites : Polled(s, SitePollResponses)
    \/ \E s \in sites : Reregistered(s, SiteRegisterResponses)
    \/ \E s \in sites, shown \in BOOLEAN : Dispatch(s, shown)
    \/ \E s \in sites : Cancel(s)
    \/ MainFinish

SpecSites == InitSites /\ [][NextSites]_vars

\* Every step of the task of site s.
Watcher(s) ==
    /\ s \in sites
    /\ \/ \E built \in BOOLEAN : Spawn(s, built)
       \/ Registered(s, SiteRegisterResponses)
       \/ IssuePoll(s)
       \/ Polled(s, SitePollResponses)
       \/ Reregistered(s, SiteRegisterResponses)
       \/ \E shown \in BOOLEAN : Dispatch(s, shown)
       \/ Cancel(s)

\* The runtime keeps running every task that can take a step, every request
\* is answered (a long poll by an event, a heartbeat or an error), and main's
\* join is polled when a task ends.
FairSpecSites ==
    /\ SpecSites
    /\ \A s \in AllSites : WF_vars(Watcher(s))
    /\ WF_vars(MainFinish)

---------------------------------------------------------------------------
\* Properties.

IsBadQueue(resp) == resp.result = "error" /\ resp.code = "BAD_EVENT_QUEUE_ID"
IsFailure(resp) == resp.result \in {"transport_failure", "error"}
FailureKind(resp) == IF resp.result = "error" THEN "api" ELSE "transport"
Range(f) == {f[i] : i \in DOMAIN f}
IsPrefix(p, q) == Len(p) <= Len(q) /\ \A i \in 1..Len(p) : p[i] = q[i]

\* C1: when a poll is answered with BAD_EVENT_QUEUE_ID and the registration
\* that follows succeeds, long_poll has sent exactly one register request,
\* the queue holds the queue_id and last_event_id of that registration (for
\* the same site), the call returned an empty batch, and the next poll
\* request carries the new queue_id and last_event_id.
C1_ReconnectTransparency ==
    \A s \in sites :
        /\ (IsBadQueue(poll_resp[s]) /\ reg_resp[s].result = "success") =>
            /\ regs[s] = 1
            /\ returned[s] = "reconnected"
            /\ batch[s] = <<>> /\ events[s] = <<>> /\ dispatched[s] = <<>>
            /\ queue[s].site = s
            /\ queue[s].queue_id = reg_resp[s].queue_id
            /\ queue[s].last_event_id = reg_resp[s].last_event_id
            /\ pc[s] \notin {"returned_err", "panicked"}
        /\ (returned[s] = "reconnected" /\ pc[s] = "awaiting_poll") =>
            /\ reg_resp[s].result = "success"
            /\ poll_req[s].queue_id = reg_resp[s].queue_id
            /\ poll_req[s].last_event_id = reg_resp[s].last_event_id

\* C1 witness: a recovery has replaced the queue by one with another id and
\* a lower cursor.
C1_Witness ==
    \E s \in sites :
        /\ IsBadQueue(poll_resp[s]) /\ reg_resp[s].result = "success"
        /\ pc[s] = "loop"
        /\ queue[s].queue_id # before[s].queue_id
        /\ queue[s].last_event_id < before[s].last_event_id

\* C2: a successful poll with an empty event list returns an empty batch
\* without failing or crashing and leaves queue_id and last_event_id as
\* they were.
C2_EmptyBatchResilience ==
    \A s \in sites :
        (poll_resp[s].result = "success" /\ poll_resp[s].events = <<>>) =>
            /\ pc[s] \notin {"panicked", "returned_err"}
            /\ returned[s] = "events" /\ batch[s] = <<>>
            /\ queue[s] = before[s]

\* C3: after a successful non-empty long_poll the cursor is at least every
\* event id of the batch and at least the cursor held before the call.
C3_CursorMonotonic ==
    \A s \in sites :
        (returned[s] = "events" /\ pc[s] = "loop") =>
            /\ queue[s].last_event_id >= before[s].last_event_id
            /\ \A i \in 1..Len(batch[s]) : queue[s].last_event_id >= batch[s][i].id

\* C4 as claimed: a poll answered with BAD_EVENT_QUEUE_ID never makes
\* long_poll return an error, whatever the answer to the re-registration.
C4_NeverSurfaces ==
    \A s \in sites :
        IsBadQueue(poll_resp[s]) => (returned[s] # "err" /\ pc[s] # "returned_err")

\* C4 as amended: after a poll answered with BAD_EVENT_QUEUE_ID, long_poll
\* returns Ok (an empty batch) and the watcher goes on when the
\* re-registration succeeds; it returns an error exactly when the
\* re-registration is answered with an error or a transport failure, the
\* error is that of the registration, and the watcher ends with it.
C4_SurfacesOnlyRegistrationFailure ==
    \A s \in sites :
        IsBadQueue(poll_resp[s]) =>
            /\ reg_resp[s].result = "success" =>
                  /\ returned[s] = "reconnected"
                  /\ pc[s] \notin {"returned_err", "panicked"}
                  /\ error[s] = "none"
            /\ IsFailure(reg_resp[s]) =>
                  /\ returned[s] = "err"
                  /\ pc[s] = "returned_err"
                  /\ error[s] = FailureKind(reg_resp[s])
            /\ (returned[s] = "err" \/ pc[s] = "returned_err") => IsFailure(reg_resp[s])

\* C4 witness: the re-registration after BAD_EVENT_QUEUE_ID was answered
\* with an error and the watcher has ended with it.
C4_Witness ==
    \E s \in sites :
        /\ IsBadQueue(poll_resp[s])
        /\ reg_resp[s].result = "error"
        /\ pc[s] = "returned_err"

\* C5: an API error whose code is absent or not BAD_EVENT_QUEUE_ID, or a
\* transport/decoding failure, makes register or long_poll fail: the task
\* has returned that error with no request in flight (no retry, no
\* re-registration), the queue is as before the call, and the error is the
\* one the joined result reports.
C5_FatalErrors ==
    \A s \in sites :
        /\ IsFailure(reg_resp[s]) =>
              /\ pc[s] = "returned_err"
              /\ error[s] = FailureKind(reg_resp[s])
        /\ ( \/ poll_resp[s].result = "transport_failure"
             \/ poll_resp[s].result = "error" /\ poll_resp[s].code # "BAD_EVENT_QUEUE_ID"
             \/ /\ poll_resp[s].result = "success"
                /\ \E i \in 1..Len(poll_resp[s].events) :
                      /\ poll_resp[s].events[i].type = "message"
                      /\ Range(poll_resp[s].events[i].flags)
                            \ {"read", "mentioned", "has_alert_word"} # {} ) =>
              /\ pc[s] = "returned_err"
              /\ returned[s] = "err"
              /\ error[s] = FailureKind(poll_resp[s])
              /\ regs[s] = 0
              /\ queue[s] = before[s]
        /\ (pc[s] = "returned_err" /\ res.kind = "Ok") =>
              (res.outcomes[s] = error[s] /\ error[s] # "none")

\* C5 witness: a poll was answered with an error that carries no code, and
\* main has printed the watcher's error.
C5_Witness ==
    \E s \in sites :
        /\ poll_resp[s].result = "error" /\ poll_resp[s].code = NoCode
        /\ pc[s] = "returned_err"
        /\ res.kind = "Ok" /\ res.outcomes[s] = "api"

\* C6: once one site's watcher has ended fatally, no other site's watcher
\* that has registered its queue is stopped or cancelled.
C6_FatalIsolation ==
    \A s \in sites, t \in sites :
        (s # t /\ pc[s] \in {"returned_err", "panicked"} /\ queue[t].queue_id # "none")
            => pc[t] # "cancelled"

AllEndedOrPanicked ==
    \/ \E s \in sites : pc[s] = "panicked"
    \/ \A s \in sites : pc[s] = "returned_err"

\* C7 as claimed: whenever a watcher has ended with an unrecoverable error,
\* main eventually prints the joined result and exits, also while other
\* watchers can still run.
C7_ExitOnAnyFailure ==
    \A s \in AllSites :
        (s \in sites /\ pc[s] \in {"returned_err", "panicked"}) ~> (res.kind # "pending")

\* C7 as amended: main prints the joined result and exits once every
\* configured watcher has returned its error or one watcher has panicked,
\* and not before: while a watcher is still running and none has panicked,
\* nothing is printed.
C7_ExitWhenAllEndedOrPanic ==
    /\ [](res.kind # "pending" => AllEndedOrPanicked)
    /\ AllEndedOrPanicked ~> (res.kind # "pending")

\* C7 witness: with two sites, one watcher failed to register, the other
\* ended later on a poll error, and only then the joined result is printed.
C7_Witness ==
    /\ Cardinality(sites) = 2
    /\ res.kind = "Ok"
    /\ \A s \in sites : pc[s] = "returned_err" /\ res.outcomes[s] # "none"
    /\ \E s \in sites : IsFailure(reg_resp[s]) /\ poll_req[s] = NoPollRequest
    /\ \E s \in sites : poll_resp[s].result = "error" /\ queue[s].last_event_id > 0

\* C8: the importance mark printed for a message is true iff its flags
\* contain Mentioned or HasAlertWord; Read does not count either way.
C8_Importance ==
    \A s \in sites : \A i \in 1..Len(console[s]) :
        console[s][i].text = "message" =>
            /\ console[s][i].mark
                  <=> (Range(console[s][i].flags) \cap {"Mentioned", "HasAlertWord"} # {})
            /\ console[s][i].mark
                  <=> ((Range(console[s][i].flags) \ {"Read"}) \cap {"Mentioned", "HasAlertWord"} # {})

\* C8 witness: a message flagged Read and HasAlertWord was marked important.
C8_Witness ==
    \E s \in sites :
        /\ Len(console[s]) = 1
        /\ console[s][1].flags = <<"Read", "HasAlertWord">>
        /\ console[s][1].mark

IsMessage(e) == e.tag = "Message"
IsImportantMessage(e) ==
    e.tag = "Message" /\ Range(e.flags) \cap {"Mentioned", "HasAlertWord"} # {}
IsNotHeartbeat(e) == e.tag # "Heartbeat"
IsMessageLine(l) == l.text = "message"

\* C9: for the events handled so far of a batch, the message lines on the
\* console are those of the Message events, one each and in order, marked
\* exactly when important; the notification sink was called once for each
\* important Message event and for nothing else; a Heartbeat printed
\* nothing.
C9_Dispatch ==
    \A s \in sites :
        LET msgs == SelectSeq(dispatched[s], IsMessage)
            lines == SelectSeq(console[s], IsMessageLine)
            important == SelectSeq(dispatched[s], IsImportantMessage)
        IN /\ Len(lines) = Len(msgs)
           /\ \A i \in 1..Len(msgs) :
                 /\ lines[i].id = msgs[i].id
                 /\ lines[i].mark <=> IsImportantMessage(msgs[i])
           /\ Len(notifications[s]) = Len(important)
           /\ \A i \in 1..Len(important) : notifications[s][i] = important[i].id
           /\ Len(console[s]) = Len(SelectSeq(dispatched[s], IsNotHeartbeat))

\* C9 witness: a batch of a message that is not important and one that is
\* has been handled, with two lines and one notification.
C9_Witness ==
    \E s \in sites :
        /\ Len(batch[s]) = 2 /\ dispatched[s] = batch[s]
        /\ batch[s][1].tag = "Message" /\ ~IsImportantMessage(batch[s][1])
        /\ IsImportantMessage(batch[s][2])
        /\ Len(console[s]) = 2
        /\ notifications[s] = <<batch[s][2].id>>

\* C10: the events handled so far are always a prefix of the batch
\* long_poll returned, in the server's order, and a poll request is sent
\* only when every event of the previous batch has been handled.
C10_Ordering ==
    [][\A s \in sites :
          /\ IsPrefix(dispatched'[s], batch'[s])
          /\ (pc[s] = "loop" /\ pc'[s] = "awaiting_poll") => dispatched[s] = batch[s]]_vars

\* C10 witness: a batch of two different events has been handled, second
\* after first, and the next poll can go out.
C10_Witness ==
    \E s \in sites :
        /\ pc[s] = "loop" /\ events[s] = <<>>
        /\ Len(batch[s]) = 2 /\ batch[s][1] # batch[s][2]
        /\ dispatched[s] = batch[s]

\* C11: a poll request that is awaiting its answer carries the queue_id and
\* the last_event_id the queue holds, it was issued after a registration that
\* succeeded, and a watcher that has not registered a queue (its initial
\* registration failed or is still pending) has issued no poll request.
C11_PollCarriesQueue ==
    \A s \in sites :
        /\ pc[s] = "awaiting_poll" =>
              /\ poll_req[s].queue_id = queue[s].queue_id
              /\ poll_req[s].last_event_id = queue[s].last_event_id
              /\ queue[s].queue_id = reg_resp[s].queue_id
              /\ register_json_ok(reg_resp[s]) /\ reg_resp[s].result = "success"
        /\ poll_req[s] # NoPollRequest => queue[s].queue_id \in QueueIds
        /\ (pc[s] \in {"spawned", "awaiting_register"}
               \/ (queue[s].queue_id = "none" /\ IsFailure(reg_resp[s])))
              => poll_req[s] = NoPollRequest

\* A second poll is in flight, carrying the cursor the first batch left.
C11_Witness ==
    \E s \in sites :
        /\ pc[s] = "awaiting_poll"
        /\ returned[s] = "events"
        /\ poll_req[s].last_event_id # reg_resp[s].last_event_id
        /\ poll_req[s].last_event_id = queue[s].last_event_id

\* C12: a watcher that has entered its loop (its queue is registered) ends
\* only because long_poll, or the registration inside it, returned a failure:
\* handling an event (classifying it, printing, calling the notification
\* daemon) never ends it.
C12_OnlyRequestsEndWatcher ==
    \A s \in sites :
        (pc[s] = "returned_err" /\ queue[s].queue_id \in QueueIds)
            => (returned[s] = "err" /\ error[s] \in {"transport", "api"})

HasUnknownFlag(resp) ==
    /\ resp.result = "success"
    /\ \E i \in 1..Len(resp.events) :
          /\ resp.events[i].type = "message"
          /\ \E j \in 1..Len(resp.events[i].flags) :
                resp.events[i].flags[j] \notin {"read", "mentioned", "has_alert_word"}

\* C13: a poll answered with a message event whose flag list holds a flag
\* other than read, mentioned and has_alert_word does not fail: long_poll
\* returns the events of the answer and the watcher does not end with a
\* decoding failure.
C13_UnknownFlagTolerated ==
    \A s \in sites :
        HasUnknownFlag(poll_resp[s]) =>
            /\ returned[s] = "events"
            /\ Len(batch[s]) = Len(poll_resp[s].events)
            /\ error[s] # "transport"

IsUnknownType(e) == e.type \notin {"heartbeat", "message"}
HasUnknownType(resp) ==
    /\ resp.result = "success"
    /\ ~HasUnknownFlag(resp)
    /\ \E i \in 1..Len(resp.events) : IsUnknownType(resp.events[i])
CountIn(seq, P(_)) == Cardinality({i \in 1..Len(seq) : P(seq[i])})
IsOther(e) == e.tag = "Other"
IsUnknownLine(l) == l.text = "unknown event"

\* C14: a poll answered with an event of a type other than heartbeat and
\* message succeeds; the event is returned as Other under its id, the cursor
\* is the id of the last event of the answer, handling it prints one
\* "unknown event" line and calls no notification, and the watcher does not
\* end because of it.
C14_UnknownEventAccepted ==
    \A s \in sites :
        HasUnknownType(poll_resp[s]) =>
            LET wire == poll_resp[s].events
            IN /\ returned[s] = "events"
               /\ Len(batch[s]) = Len(wire)
               /\ \A i \in 1..Len(wire) :
                     IsUnknownType(wire[i]) => batch[s][i] = Event(wire[i].id, "Other", <<>>)
               /\ queue[s].last_event_id = wire[Len(wire)].id
               /\ CountIn(console[s], IsUnknownLine) = CountIn(dispatched[s], IsOther)
               /\ Len(notifications[s]) = CountIn(dispatched[s], IsImportantMessage)
               /\ pc[s] # "panicked"
               /\ pc[s] = "returned_err" =>
                     /\ dispatched[s] # <<>>
                     /\ ~IsOther(dispatched[s][Len(dispatched[s])])
               /\ (pc[s] = "loop" /\ events[s] = <<>>) =>
                     /\ dispatched[s] = batch[s]
                     /\ ENABLED IssuePoll(s)

\* An unknown event and then a message have been handled, and the watcher is
\* about to poll again.
C14_Witness ==
    \E s \in sites :
        /\ HasUnknownType(poll_resp[s])
        /\ pc[s] = "loop" /\ events[s] = <<>>
        /\ Len(dispatched[s]) = 2
        /\ IsOther(dispatched[s][1]) /\ dispatched[s][2].tag = "Message"
        /\ console[s][1] = Line("unknown event", FALSE, dispatched[s][1].id, <<>>)
        /\ queue[s].last_event_id = dispatched[s][2].id

IsEventsAnswer(resp) ==
    /\ resp.result = "success"
    /\ resp.events # <<>>
    /\ ~HasUnknownFlag(resp)

\* C15: after a poll answered with a decodable, non-empty event list,
\* last_event_id is the id of the last event of the answer, site and
\* queue_id are those held before the call, long_poll has sent no register
\* request, and the batch it returned is the answer's events, in the
\* answer's order.
C15_SuccessfulPoll ==
    \A s \in sites :
        IsEventsAnswer(poll_resp[s]) =>
            LET wire == poll_resp[s].events
            IN /\ returned[s] = "events"
               /\ queue[s].last_event_id = wire[Len(wire)].id
               /\ queue[s].queue_id = before[s].queue_id
               /\ queue[s].site = before[s].site
               /\ regs[s] = 0
               /\ Len(batch[s]) = Len(wire)
               /\ \A i \in 1..Len(wire) :
                     /\ batch[s][i].id = wire[i].id
                     /\ batch[s][i].tag = (CASE wire[i].type = "heartbeat" -> "Heartbeat"
                                             [] wire[i].type = "message" -> "Message"
                                             [] OTHER -> "Other")
                     /\ Len(batch[s][i].flags) = Len(wire[i].flags)

\* A queue registered with cursor 0 has polled a batch with ids 1, 2: the
\* cursor is 2.
C15_Witness ==
    \E s \in sites :
        /\ IsEventsAnswer(poll_resp[s])
        /\ before[s].last_event_id = 0
        /\ Len(batch[s]) = 2 /\ batch[s][1].id = 1 /\ batch[s][2].id = 2
        /\ queue[s].last_event_id = 2
        /\ queue[s].queue_id = before[s].queue_id

\* C16: with a server that answers every poll only with events newer than
\* the last_event_id the poll carried, oldest first, each event a watcher
\* handles has an id greater than the id of the event it handled before it
\* under the same registration, within a batch and from one batch to the
\* next: no event is handled twice or out of order.
C16_DispatchedIdsIncrease ==
    [][\A s \in sites :
          Len(dispatched'[s]) > Len(dispatched[s]) =>
              LET event == dispatched'[s][Len(dispatched'[s])]
              IN /\ last_dispatched[s] # 0 => event.id > last_dispatched[s]
                 /\ \A i \in 1..Len(dispatched[s]) : dispatched[s][i].id < event.id
                 /\ event.id > before[s].last_event_id]_vars

\* The event of a second batch of the same registration has been handled.
C16_Witness ==
    \E s \in sites :
        /\ reg_resp[s].result = "success" /\ reg_resp[s].last_event_id = 0
        /\ queue[s].queue_id = reg_resp[s].queue_id
        /\ before[s].last_event_id = 1
        /\ dispatched[s] # <<>> /\ dispatched[s][1].id = 2
        /\ last_dispatched[s] = 2

TaskState(s) ==
    <<pc[s], queue[s], events[s], error[s], poll_req[s], before[s], poll_resp[s],
      reg_resp[s], regs[s], returned[s], batch[s], dispatched[s], console[s],
      notifications[s]>>

\* C17: a step of the watcher of one site (it registers, polls, moves its
\* cursor, reconnects, handles an event or ends with an error) leaves the
\* site, queue_id and last_event_id of the queue of every other site as
\* they were, whatever the other watchers are doing.
C17_SitesShareNothing ==
    [][\A s \in sites, t \in sites :
          (s # t /\ TaskState(s)' # TaskState(s)) =>
              /\ queue'[t].queue_id = queue[t].queue_id
              /\ queue'[t].last_event_id = queue[t].last_event_id
              /\ queue'[t].site = queue[t].site
              /\ queue[t].site = t]_vars

\* Two watchers hold different queues and cursors; one has ended with an
\* error while the other is polling.
C17_Witness ==
    \E s \in sites, t \in sites :
        /\ s # t
        /\ queue[s].queue_id \in QueueIds /\ queue[t].queue_id \in QueueIds
        /\ queue[s].queue_id # queue[t].queue_id
        /\ queue[s].last_event_id # queue[t].last_event_id
        /\ pc[s] = "returned_err" /\ returned[s] = "err"
        /\ pc[t] = "awaiting_poll" /\ returned[t] = "events"

\* C18: main has the result of the join (and prints it) only once every
\* watcher has finished: while a watcher with a registered queue is still
\* running, nothing has been printed.
C18_JoinObservesAtEnd ==
    \A t \in sites :
        (~Running /\ queue[t].queue_id \in QueueIds)
            => pc[t] \in {"returned_err", "panicked"}

LongPollFailed(s) ==
    \/ IsFailure(poll_resp[s]) /\ ~IsBadQueue(poll_resp[s])
    \/ HasUnknownFlag(poll_resp[s])
    \/ IsBadQueue(poll_resp[s]) /\ IsFailure(reg_resp[s])

\* C19: when the poll is answered with an error other than
\* BAD_EVENT_QUEUE_ID, or cannot be transported or decoded, or the
\* registration started after BAD_EVENT_QUEUE_ID fails, long_poll returns
\* the failure and the queue holds the site, queue_id and last_event_id it
\* held when long_poll was called.
C19_FailureKeepsQueue ==
    \A s \in sites :
        LongPollFailed(s) =>
            /\ returned[s] = "err"
            /\ queue[s].site = before[s].site
            /\ queue[s].queue_id = before[s].queue_id
            /\ queue[s].last_event_id = before[s].last_event_id
            /\ queue[s].queue_id \in QueueIds

\* A queue whose cursor has advanced is answered BAD_EVENT_QUEUE_ID and the
\* registration that follows cannot be transported.
C19_Witness ==
    \E s \in sites :
        /\ IsBadQueue(poll_resp[s])
        /\ reg_resp[s].result = "transport_failure"
        /\ returned[s] = "err"
        /\ queue[s] = before[s]
        /\ queue[s].last_event_id > 0

====
